---- MODULE Spec2Model ----
(***************************************************************************)
(* DeviceManager of robothub_depthai (manager.py): a registry of devices   *)
(* (_devices), a pool of running HubCamera handles (_hub_cameras), the     *)
(* three threads _connect, _report and _poll, and start()/stop().          *)
(*                                                                         *)
(* Each thread is a program counter; one action is one step a thread takes *)
(* between two points where another thread can run.  A Python list         *)
(* iterator is an index into the live list: `for x in xs` reads            *)
(* xs[i] while i < len(xs), so a list changed during the loop is seen      *)
(* changed.                                                                *)
(*                                                                         *)
(* Spec is the manager with its callers.  The other specifications are     *)
(* the same steps in narrower surroundings: without the loops              *)
(* (StartFairSpec), on a registry that stays as it is (FixedSpec), with    *)
(* what each pass of _poll and _report does written on the objects of the  *)
(* pool (ObservedSpec, recording = TRUE), and with a second thread running *)
(* _connect (TwoSupervisorSpec).                                           *)
(***************************************************************************)
EXTENDS Naturals, Sequences, FiniteSets

\* The devices a caller may register (Device.mxid is the identity).
Devices == {"A", "B"}

\* Largest pool the model lets the connection thread grow.
MaxPool == 2

NoDevice == "none"

VARIABLES
    devices,               \* self._devices: sequence of mxids
    hub_cameras,           \* self._hub_cameras: sequence of HubCamera objects
    running,               \* self.running
    connecting_to_device,  \* self.connecting_to_device
    stop_event,            \* self.stop_event is set
    connection_thread,     \* position of the thread running _connect
    reporting_thread,      \* position of the thread running _report
    polling_thread,        \* position of the thread running _poll
    start_pc,              \* position of the caller of start()
    stop_pc,               \* position of the caller of stop()
    conn_mxids,            \* _connect: mxids
    conn_i,                \* _connect: index of the iterator over _devices
    conn_device,           \* _connect: device
    conn_camera,           \* _connect_device: hub_camera
    poll_i,                \* _poll: index of the iterator over _hub_cameras
    poll_camera,           \* _poll: camera
    rep_i,                 \* _report: index of the iterator over _hub_cameras
    stop_i,                \* stop: index of the iterator over _hub_cameras
    disconnect_called,     \* _disconnect_camera: disconnect_callback calls made
    recording,             \* the passes of _poll and _report are recorded
    connection_thread_2,   \* position of a second thread running _connect
    conn_mxids_2,          \* its mxids
    conn_i_2,              \* its index of the iterator over _devices
    conn_device_2,         \* its device
    conn_camera_2          \* its hub_camera

vars == <<devices, hub_cameras, running, connecting_to_device, stop_event,
          connection_thread, reporting_thread, polling_thread, start_pc,
          stop_pc, conn_mxids, conn_i, conn_device, conn_camera, poll_i,
          poll_camera, rep_i, stop_i, disconnect_called, recording,
          connection_thread_2, conn_mxids_2, conn_i_2, conn_device_2,
          conn_camera_2>>

flag_vars == <<running, connecting_to_device, stop_event>>
conn_vars == <<conn_mxids, conn_i, conn_device, conn_camera>>
poll_vars == <<poll_i, poll_camera, disconnect_called>>
first_vars == <<connection_thread, conn_mxids, conn_i, conn_device,
                conn_camera>>
second_vars == <<connection_thread_2, conn_mxids_2, conn_i_2, conn_device_2,
                 conn_camera_2>>

-----------------------------------------------------------------------------
(* Lists *)

Range(s) == {s[i] : i \in 1..Len(s)}

\* list.remove(x): drops the first element equal to x.
RECURSIVE ListRemove(_, _)
ListRemove(s, x) ==
    IF s = <<>> THEN <<>>
    ELSE IF Head(s) = x THEN Tail(s)
    ELSE <<Head(s)>> \o ListRemove(Tail(s), x)

-----------------------------------------------------------------------------
(* HubCamera objects.  An object is its fields; the objects of the pool  *)
(* are told apart by their place in the list.                            *)
(*                                                                       *)
(* Where recording is on, poll and report say what the current pass of   *)
(* _poll and of _report has to do with an object: "due" on the objects   *)
(* that are in the pool when the pass begins, then "polled", or "sent"   *)
(* or "raised", once the pass has come to the object; "none" between     *)
(* passes and on an object appended during the pass.  Where recording is *)
(* off both stay "none".                                                 *)

\* HubCamera(device_mxid=mxid)
HubCamera(mxid) ==
    [device_mxid |-> mxid, start_result |-> FALSE, started |-> FALSE,
     connect_called |-> FALSE, poll_failed |-> FALSE, stopped |-> FALSE,
     poll |-> "none", report |-> "none"]

\* A local variable that holds no camera.
NoCamera == HubCamera(NoDevice)

\* [camera.device_mxid for camera in self._hub_cameras]
PoolMxids(pool) == {pool[i].device_mxid : i \in 1..Len(pool)}

\* The list without its i-th element.
RemoveAt(s, i) == SubSeq(s, 1, i - 1) \o SubSeq(s, i + 1, Len(s))

\* for camera in self._hub_cameras: the pass begins, recorded as due on
\* every object of the pool
PassBegun(pool, pass) ==
    IF recording
      THEN [i \in 1..Len(pool) |-> [pool[i] EXCEPT ![pass] = "due"]]
      ELSE pool

\* camera = next(iterator): the pass has come to the i-th object
PassCame(pool, i, pass, outcome) ==
    IF recording THEN [pool EXCEPT ![i][pass] = outcome] ELSE pool

\* the iterator is exhausted: the pass has ended
PassEnded(pool, pass) ==
    IF recording
      THEN [i \in 1..Len(pool) |-> [pool[i] EXCEPT ![pass] = "none"]]
      ELSE pool

-----------------------------------------------------------------------------
(* __init__ *)

Init ==
    /\ devices = <<>>
    /\ hub_cameras = <<>>
    /\ running = FALSE
    /\ connecting_to_device = FALSE
    /\ stop_event = FALSE
    /\ connection_thread = "unstarted"
    /\ reporting_thread = "unstarted"
    /\ polling_thread = "unstarted"
    /\ start_pc = "idle"
    /\ stop_pc = "idle"
    /\ conn_mxids = {}
    /\ conn_i = 0
    /\ conn_device = NoDevice
    /\ conn_camera = NoCamera
    /\ poll_i = 0
    /\ poll_camera = NoCamera
    /\ rep_i = 0
    /\ stop_i = 0
    /\ disconnect_called = 0
    /\ recording = FALSE
    /\ connection_thread_2 = "unstarted"
    /\ conn_mxids_2 = {}
    /\ conn_i_2 = 0
    /\ conn_device_2 = NoDevice
    /\ conn_camera_2 = NoCamera

-----------------------------------------------------------------------------
(* add_device, remove_device *)

\* self._devices.append(device); a caller registers a device once.
add_device(d) ==
    /\ d \notin Range(devices)
    /\ devices' = Append(devices, d)
    /\ UNCHANGED <<hub_cameras, flag_vars, connection_thread, reporting_thread,
                   polling_thread, start_pc, stop_pc, conn_vars, poll_vars,
                   rep_i, stop_i, recording, second_vars>>

\* self._devices.remove(device); ValueError (no change) when it is not there.
remove_device(d) ==
    /\ d \in Range(devices)
    /\ devices' = ListRemove(devices, d)
    /\ UNCHANGED <<hub_cameras, flag_vars, connection_thread, reporting_thread,
                   polling_thread, start_pc, stop_pc, conn_vars, poll_vars,
                   rep_i, stop_i, recording, second_vars>>

-----------------------------------------------------------------------------
(* start *)

\* self.running = True
StartCall ==
    /\ start_pc = "idle"
    /\ running' = TRUE
    /\ start_pc' = "gate"
    /\ UNCHANGED <<devices, hub_cameras, connecting_to_device, stop_event,
                   connection_thread, reporting_thread, polling_thread,
                   stop_pc, conn_vars, poll_vars, rep_i, stop_i, recording,
                   second_vars>>

\* StartGate, were the stop event to end the wait for a first device.
StartGateLeavesOnStop ==
    /\ start_pc = "gate"
    /\ start_pc' = IF running /\ devices = <<>> /\ ~stop_event
                   THEN "gate_wait" ELSE "launch_connection"
    /\ UNCHANGED <<devices, hub_cameras, flag_vars, connection_thread,
                   reporting_thread, polling_thread, stop_pc, conn_vars,
                   poll_vars, rep_i, stop_i, recording, second_vars>>

\* while self.running: if self._devices: break
StartGate ==
    /\ start_pc = "gate"
    /\ start_pc' = IF running /\ devices = <<>> THEN "gate_wait"
                   ELSE "launch_connection"
    /\ UNCHANGED <<devices, hub_cameras, flag_vars, connection_thread,
                   reporting_thread, polling_thread, stop_pc, conn_vars,
                   poll_vars, rep_i, stop_i, recording, second_vars>>

\* StartWait, were wait(5) to return only when the event is set.
StartWaitNoTimeout ==
    /\ start_pc = "gate_wait"
    /\ stop_event
    /\ start_pc' = "gate"
    /\ UNCHANGED <<devices, hub_cameras, flag_vars, connection_thread,
                   reporting_thread, polling_thread, stop_pc, conn_vars,
                   poll_vars, rep_i, stop_i, recording, second_vars>>

\* self.stop_event.wait(5): returns at the timeout, or at once when set.
StartWait ==
    /\ start_pc = "gate_wait"
    /\ start_pc' = "gate"
    /\ UNCHANGED <<devices, hub_cameras, flag_vars, connection_thread,
                   reporting_thread, polling_thread, stop_pc, conn_vars,
                   poll_vars, rep_i, stop_i, recording, second_vars>>

\* self.connection_thread.start()
StartConnection ==
    /\ start_pc = "launch_connection"
    /\ connection_thread' = "head"
    /\ start_pc' = "launch_reporting"
    /\ UNCHANGED <<devices, hub_cameras, flag_vars, reporting_thread,
                   polling_thread, stop_pc, conn_vars, poll_vars, rep_i,
                   stop_i, recording, second_vars>>

\* self.reporting_thread.start()
StartReporting ==
    /\ start_pc = "launch_reporting"
    /\ reporting_thread' = "head"
    /\ start_pc' = "launch_polling"
    /\ UNCHANGED <<devices, hub_cameras, flag_vars, connection_thread,
                   polling_thread, stop_pc, conn_vars, poll_vars, rep_i,
                   stop_i, recording, second_vars>>

\* self.polling_thread.start(), and start() returns
StartPolling ==
    /\ start_pc = "launch_polling"
    /\ polling_thread' = "head"
    /\ start_pc' = "returned"
    /\ UNCHANGED <<devices, hub_cameras, flag_vars, connection_thread,
                   reporting_thread, stop_pc, conn_vars, poll_vars, rep_i,
                   stop_i, recording, second_vars>>

-----------------------------------------------------------------------------
(* _connect, _connect_device *)

\* while self.running:
\*     if len(self._hub_cameras) == len(self._devices) or self.connecting_to_device:
\*     mxids = [camera.device_mxid for camera in self._hub_cameras]
ConnectLoop ==
    /\ IF ~running
         THEN /\ connection_thread' = "done"
              /\ UNCHANGED <<conn_mxids, conn_i>>
         ELSE IF Len(hub_cameras) = Len(devices) \/ connecting_to_device
           THEN /\ connection_thread' = "wait"
                /\ UNCHANGED <<conn_mxids, conn_i>>
           ELSE /\ connection_thread' = "iter"
                /\ conn_mxids' = PoolMxids(hub_cameras)
                /\ conn_i' = 0
    /\ UNCHANGED <<devices, hub_cameras, flag_vars, reporting_thread,
                   polling_thread, start_pc, stop_pc, conn_device, conn_camera,
                   poll_vars, rep_i, stop_i, recording, second_vars>>

\* the thread's first pass, and the pass after a scan of the registry
ConnectHead ==
    /\ connection_thread = "head"
    /\ ConnectLoop

\* self.stop_event.wait(5) returns, at the timeout or at once when the event
\* is set; continue
ConnectWait ==
    /\ connection_thread = "wait"
    /\ ConnectLoop

\* for device in self._devices:
\*     if device.mxid not in mxids: self.connecting_to_device = True
ConnectNext ==
    /\ connection_thread = "iter"
    /\ IF conn_i < Len(devices)
         THEN /\ conn_i' = conn_i + 1
              /\ IF devices[conn_i + 1] \notin conn_mxids
                   THEN /\ Len(hub_cameras) < MaxPool
                        /\ connecting_to_device' = TRUE
                        /\ conn_device' = devices[conn_i + 1]
                        /\ connection_thread' = "connect_device"
                   ELSE /\ UNCHANGED <<connecting_to_device, conn_device,
                                       connection_thread>>
              /\ UNCHANGED conn_mxids
         ELSE /\ connection_thread' = "head"
              /\ conn_mxids' = {}
              /\ conn_i' = 0
              /\ UNCHANGED <<connecting_to_device, conn_device>>
    /\ UNCHANGED <<devices, hub_cameras, running, stop_event, reporting_thread,
                   polling_thread, start_pc, stop_pc, conn_camera, poll_vars,
                   rep_i, stop_i, recording, second_vars>>

\* ConnectDevice, were the result of device._start not looked at.
ConnectDeviceIgnoresResult ==
    /\ connection_thread = "connect_device"
    /\ \E start_result \in BOOLEAN :
           /\ conn_camera' = [HubCamera(conn_device) EXCEPT
                                 !.start_result = start_result]
           /\ connection_thread' = "start_camera"
    /\ UNCHANGED <<devices, hub_cameras, flag_vars, reporting_thread,
                   polling_thread, start_pc, stop_pc, conn_mxids, conn_i,
                   conn_device, poll_vars, rep_i, stop_i, recording,
                   second_vars>>

\* hub_camera = HubCamera(device_mxid=device.mxid)
\* if not device._start(hub_camera):
ConnectDevice ==
    /\ connection_thread = "connect_device"
    /\ \E start_result \in BOOLEAN :
           /\ conn_camera' = [HubCamera(conn_device) EXCEPT
                                 !.start_result = start_result]
           /\ connection_thread' = IF start_result THEN "start_camera"
                                   ELSE "start_failed"
    /\ UNCHANGED <<devices, hub_cameras, flag_vars, reporting_thread,
                   polling_thread, start_pc, stop_pc, conn_mxids, conn_i,
                   conn_device, poll_vars, rep_i, stop_i, recording,
                   second_vars>>

\* hub_camera.stop()
ConnectStartFailed ==
    /\ connection_thread = "start_failed"
    /\ conn_camera' = [conn_camera EXCEPT !.stopped = TRUE]
    /\ connection_thread' = "abandon"
    /\ UNCHANGED <<devices, hub_cameras, flag_vars, reporting_thread,
                   polling_thread, start_pc, stop_pc, conn_mxids, conn_i,
                   conn_device, poll_vars, rep_i, stop_i, recording,
                   second_vars>>

\* return; self.connecting_to_device = False
ConnectAbandon ==
    /\ connection_thread = "abandon"
    /\ connecting_to_device' = FALSE
    /\ conn_camera' = NoCamera
    /\ conn_device' = NoDevice
    /\ connection_thread' = "iter"
    /\ UNCHANGED <<devices, hub_cameras, running, stop_event, reporting_thread,
                   polling_thread, start_pc, stop_pc, conn_mxids, conn_i,
                   poll_vars, rep_i, stop_i, recording, second_vars>>

\* hub_camera.start(); device.connect_callback(hub_camera)
ConnectStartCamera ==
    /\ connection_thread = "start_camera"
    /\ conn_camera' = [conn_camera EXCEPT !.started = TRUE,
                                          !.connect_called = TRUE]
    /\ connection_thread' = "append"
    /\ UNCHANGED <<devices, hub_cameras, flag_vars, reporting_thread,
                   polling_thread, start_pc, stop_pc, conn_mxids, conn_i,
                   conn_device, poll_vars, rep_i, stop_i, recording,
                   second_vars>>

\* ConnectAppend, were connecting_to_device left set.
ConnectAppendKeepsFlag ==
    /\ connection_thread = "append"
    /\ hub_cameras' = Append(hub_cameras, conn_camera)
    /\ conn_camera' = NoCamera
    /\ conn_device' = NoDevice
    /\ connection_thread' = "iter"
    /\ UNCHANGED <<devices, flag_vars, reporting_thread, polling_thread,
                   start_pc, stop_pc, conn_mxids, conn_i, poll_vars, rep_i,
                   stop_i, recording, second_vars>>

\* self._hub_cameras.append(hub_camera); self.connecting_to_device = False
ConnectAppend ==
    /\ connection_thread = "append"
    /\ hub_cameras' = Append(hub_cameras, conn_camera)
    /\ connecting_to_device' = FALSE
    /\ conn_camera' = NoCamera
    /\ conn_device' = NoDevice
    /\ connection_thread' = "iter"
    /\ UNCHANGED <<devices, running, stop_event, reporting_thread,
                   polling_thread, start_pc, stop_pc, conn_mxids, conn_i,
                   poll_vars, rep_i, stop_i, recording, second_vars>>

-----------------------------------------------------------------------------
(* _poll, _disconnect_camera, _get_device_by_mxid *)

\* while self.running: for camera in self._hub_cameras:
PollLoop ==
    /\ polling_thread' = IF running THEN "iter" ELSE "done"
    /\ hub_cameras' = IF running THEN PassBegun(hub_cameras, "poll")
                      ELSE hub_cameras
    /\ poll_i' = 0
    /\ UNCHANGED <<devices, flag_vars, connection_thread,
                   reporting_thread, start_pc, stop_pc, conn_vars, poll_camera,
                   disconnect_called, rep_i, stop_i, recording, second_vars>>

\* the thread's first pass
PollHead ==
    /\ polling_thread = "head"
    /\ PollLoop

\* camera = next(iterator); if not camera.poll():
\* The iterator has stepped, so camera is hub_cameras[poll_i] from here on.
PollNext ==
    /\ polling_thread = "iter"
    /\ IF poll_i < Len(hub_cameras)
         THEN /\ poll_i' = poll_i + 1
              /\ \E poll_result \in BOOLEAN :
                     IF poll_result
                       THEN /\ hub_cameras' = PassCame(hub_cameras,
                                   poll_i + 1, "poll", "polled")
                            /\ UNCHANGED <<polling_thread, poll_camera>>
                       ELSE /\ hub_cameras' =
                                   [PassCame(hub_cameras, poll_i + 1,
                                             "poll", "polled")
                                      EXCEPT ![poll_i + 1].poll_failed = TRUE]
                            /\ poll_camera' = hub_cameras'[poll_i + 1]
                            /\ polling_thread' = "disconnect_stop"
         ELSE /\ polling_thread' = "wait"
              /\ poll_i' = 0
              /\ hub_cameras' = PassEnded(hub_cameras, "poll")
              /\ UNCHANGED poll_camera
    /\ UNCHANGED <<devices, flag_vars, connection_thread, reporting_thread,
                   start_pc, stop_pc, conn_vars, disconnect_called, rep_i,
                   stop_i, recording, second_vars>>

\* DisconnectStop, were the camera left running.
DisconnectStopSkipped ==
    /\ polling_thread = "disconnect_stop"
    /\ polling_thread' = "disconnect_remove"
    /\ UNCHANGED <<devices, hub_cameras, flag_vars, connection_thread,
                   reporting_thread, start_pc, stop_pc, conn_vars, poll_vars,
                   rep_i, stop_i, recording, second_vars>>

\* camera.stop()
DisconnectStop ==
    /\ polling_thread = "disconnect_stop"
    /\ hub_cameras' = [hub_cameras EXCEPT ![poll_i].stopped = TRUE]
    /\ poll_camera' = [poll_camera EXCEPT !.stopped = TRUE]
    /\ polling_thread' = "disconnect_remove"
    /\ UNCHANGED <<devices, flag_vars, connection_thread, reporting_thread,
                   start_pc, stop_pc, conn_vars, poll_i, disconnect_called,
                   rep_i, stop_i, recording, second_vars>>

\* self._hub_cameras.remove(camera): camera is the object at place poll_i,
\* and only this thread removes from the list.
DisconnectRemove ==
    /\ polling_thread = "disconnect_remove"
    /\ hub_cameras' = RemoveAt(hub_cameras, poll_i)
    /\ polling_thread' = "disconnect_lookup"
    /\ UNCHANGED <<devices, flag_vars, connection_thread, reporting_thread,
                   start_pc, stop_pc, conn_vars, poll_vars, rep_i, stop_i,
                   recording, second_vars>>

\* for device in self._devices: if device.mxid == mxid: return device
_get_device_by_mxid(mxid) ==
    IF mxid \in Range(devices) THEN mxid ELSE NoDevice

\* DisconnectCallback, were the callback of the camera's device invoked
\* without the lookup in the registry.
DisconnectCallbackNoLookup ==
    /\ polling_thread = "disconnect_lookup"
    /\ disconnect_called' = disconnect_called + 1
    /\ polling_thread' = "disconnect_return"
    /\ UNCHANGED <<devices, hub_cameras, flag_vars, connection_thread,
                   reporting_thread, start_pc, stop_pc, conn_vars, poll_i,
                   poll_camera, rep_i, stop_i, recording, second_vars>>

\* DisconnectCallback, were the device of the evicted camera taken out of
\* the registry.
DisconnectCallbackUnregisters ==
    /\ polling_thread = "disconnect_lookup"
    /\ devices' = ListRemove(devices, poll_camera.device_mxid)
    /\ disconnect_called' =
           IF _get_device_by_mxid(poll_camera.device_mxid) # NoDevice
             THEN disconnect_called + 1
             ELSE disconnect_called
    /\ polling_thread' = "disconnect_return"
    /\ UNCHANGED <<hub_cameras, flag_vars, connection_thread,
                   reporting_thread, start_pc, stop_pc, conn_vars, poll_i,
                   poll_camera, rep_i, stop_i, recording, second_vars>>

\* device = self._get_device_by_mxid(camera.device_mxid)
\* if device: device.disconnect_callback(device)
DisconnectCallback ==
    /\ polling_thread = "disconnect_lookup"
    /\ disconnect_called' =
           IF _get_device_by_mxid(poll_camera.device_mxid) # NoDevice
             THEN disconnect_called + 1
             ELSE disconnect_called
    /\ polling_thread' = "disconnect_return"
    /\ UNCHANGED <<devices, hub_cameras, flag_vars, connection_thread,
                   reporting_thread, start_pc, stop_pc, conn_vars, poll_i,
                   poll_camera, rep_i, stop_i, recording, second_vars>>

\* _disconnect_camera returns; continue
\* (the removal moved the rest of the list one place down under the iterator)
DisconnectReturn ==
    /\ polling_thread = "disconnect_return"
    /\ poll_camera' = NoCamera
    /\ disconnect_called' = 0
    /\ polling_thread' = "iter"
    /\ UNCHANGED <<devices, hub_cameras, flag_vars, connection_thread,
                   reporting_thread, start_pc, stop_pc, conn_vars, poll_i,
                   rep_i, stop_i, recording, second_vars>>

\* self.stop_event.wait(self.POLL_FREQUENCY) returns, at the timeout or at
\* once when the event is set, and the loop goes round
PollWait ==
    /\ polling_thread = "wait"
    /\ PollLoop

-----------------------------------------------------------------------------
(* _report *)

\* while self.running: for camera in self._hub_cameras:
ReportLoop ==
    /\ reporting_thread' = IF running THEN "iter" ELSE "done"
    /\ hub_cameras' = IF running THEN PassBegun(hub_cameras, "report")
                      ELSE hub_cameras
    /\ rep_i' = 0
    /\ UNCHANGED <<devices, flag_vars, connection_thread, polling_thread,
                   start_pc, stop_pc, conn_vars, poll_vars, stop_i,
                   recording, second_vars>>

\* the thread's first pass
ReportHead ==
    /\ reporting_thread = "head"
    /\ ReportLoop

\* camera = next(iterator)
\* try: info_report, stats_report, publish_device_info, publish_device_stats
\* except Exception as e: log.debug(...)
\* Either the four calls return, or one of them raises and the exception is
\* caught and logged; the for loop goes on both ways.
ReportNext ==
    /\ reporting_thread = "iter"
    /\ IF rep_i < Len(hub_cameras)
         THEN /\ rep_i' = rep_i + 1
              /\ \E raises \in BOOLEAN :
                     hub_cameras' = PassCame(hub_cameras, rep_i + 1, "report",
                                             IF raises THEN "raised"
                                             ELSE "sent")
              /\ UNCHANGED reporting_thread
         ELSE /\ reporting_thread' = "wait"
              /\ rep_i' = 0
              /\ hub_cameras' = PassEnded(hub_cameras, "report")
    /\ UNCHANGED <<devices, flag_vars, connection_thread, polling_thread,
                   start_pc, stop_pc, conn_vars, poll_vars, stop_i,
                   recording, second_vars>>

\* self.stop_event.wait(self.REPORT_FREQUENCY) returns, at the timeout or at
\* once when the event is set, and the loop goes round
ReportWait ==
    /\ reporting_thread = "wait"
    /\ ReportLoop

-----------------------------------------------------------------------------
(* stop, __graceful_thread_join *)

\* thread.is_alive()
is_alive(thread) == thread \notin {"unstarted", "done"}

\* self.stop_event.set()
StopCall ==
    /\ stop_pc = "idle"
    /\ stop_event' = TRUE
    /\ stop_pc' = "join_connection"
    /\ UNCHANGED <<devices, hub_cameras, running, connecting_to_device,
                   connection_thread, reporting_thread, polling_thread,
                   start_pc, conn_vars, poll_vars, rep_i, stop_i, recording,
                   second_vars>>

\* if thread.is_alive(): thread.join()   -- returns once the thread is not alive
__graceful_thread_join(thread, next) ==
    /\ ~is_alive(thread)
    /\ stop_pc' = next
    /\ UNCHANGED <<devices, hub_cameras, flag_vars, connection_thread,
                   reporting_thread, polling_thread, start_pc, conn_vars,
                   poll_vars, rep_i, stop_i, recording, second_vars>>

StopJoinConnection ==
    /\ stop_pc = "join_connection"
    /\ __graceful_thread_join(connection_thread, "join_reporting")

StopJoinReporting ==
    /\ stop_pc = "join_reporting"
    /\ __graceful_thread_join(reporting_thread, "join_polling")

StopJoinPolling ==
    /\ stop_pc = "join_polling"
    /\ __graceful_thread_join(polling_thread, "destroy_streams")

\* try: robothub.STREAMS.destroy_all_streams()
\* except BaseException as e:
StopDestroyStreams ==
    /\ stop_pc = "destroy_streams"
    /\ \E raises \in BOOLEAN :
           stop_pc' = IF raises THEN "destroy_except" ELSE "teardown"
    /\ stop_i' = 0
    /\ UNCHANGED <<devices, hub_cameras, flag_vars, connection_thread,
                   reporting_thread, polling_thread, start_pc, conn_vars,
                   poll_vars, rep_i, recording, second_vars>>

\* camera.state != robothub.DeviceState.DISCONNECTED
NotDisconnected(camera) == camera.started /\ ~camera.stopped

\* for camera in self._hub_cameras:
\*     if camera.state != robothub.DeviceState.DISCONNECTED:
\* and, the list at its end, log 'stopped successfully' and return
StopTeardown ==
    /\ stop_pc = "teardown"
    /\ IF stop_i < Len(hub_cameras)
         THEN /\ stop_i' = stop_i + 1
              /\ stop_pc' = IF NotDisconnected(hub_cameras[stop_i + 1])
                            THEN "exit_camera" ELSE "teardown"
         ELSE /\ stop_pc' = "done"
              /\ stop_i' = 0
    /\ UNCHANGED <<devices, hub_cameras, flag_vars, connection_thread,
                   reporting_thread, polling_thread, start_pc, conn_vars,
                   poll_vars, rep_i, recording, second_vars>>

\* try: camera.oak_camera.__exit__(...)
\* except BaseException as e:
StopExitCamera ==
    /\ stop_pc = "exit_camera"
    /\ \E raises \in BOOLEAN :
           stop_pc' = IF raises THEN "exit_except" ELSE "teardown"
    /\ UNCHANGED <<devices, hub_cameras, flag_vars, connection_thread,
                   reporting_thread, polling_thread, start_pc, conn_vars,
                   poll_vars, rep_i, stop_i, recording, second_vars>>

\* StopRaise, were the exception logged and the teardown gone on with.
StopRaiseSwallowed ==
    /\ stop_pc \in {"destroy_except", "exit_except"}
    /\ stop_pc' = "teardown"
    /\ UNCHANGED <<devices, hub_cameras, flag_vars, connection_thread,
                   reporting_thread, polling_thread, start_pc, conn_vars,
                   poll_vars, rep_i, stop_i, recording, second_vars>>

\* raise Exception('Destroy all streams excepted with: ...')
\* raise Exception('Device ...: could not exit with exception: ...')
\* stop() ends with the exception, its iterator of the pool dropped
StopRaise ==
    /\ stop_pc \in {"destroy_except", "exit_except"}
    /\ stop_pc' = "raised"
    /\ stop_i' = 0
    /\ UNCHANGED <<devices, hub_cameras, flag_vars, connection_thread,
                   reporting_thread, polling_thread, start_pc, conn_vars,
                   poll_vars, rep_i, recording, second_vars>>

-----------------------------------------------------------------------------
(* The manager with its callers *)

StartSteps ==
    \/ StartGate \/ StartWait
    \/ StartConnection \/ StartReporting \/ StartPolling

StopSteps ==
    \/ StopJoinConnection \/ StopJoinReporting \/ StopJoinPolling
    \/ StopDestroyStreams \/ StopTeardown \/ StopExitCamera \/ StopRaise

ConnectSteps ==
    \/ ConnectHead \/ ConnectWait \/ ConnectNext \/ ConnectDevice
    \/ ConnectStartFailed \/ ConnectAbandon
    \/ ConnectStartCamera \/ ConnectAppend

PollSteps ==
    \/ PollHead \/ PollNext \/ PollWait
    \/ DisconnectStop \/ DisconnectRemove \/ DisconnectCallback
    \/ DisconnectReturn

ReportSteps == ReportHead \/ ReportNext \/ ReportWait

Next ==
    \/ \E d \in Devices : add_device(d)
    \/ \E d \in Devices : remove_device(d)
    \/ StartCall
    \/ StopCall
    \/ StartSteps
    \/ StopSteps
    \/ ConnectSteps
    \/ PollSteps
    \/ ReportSteps

Spec == Init /\ [][Next]_vars

\* Every thread that can take a step is scheduled sooner or later, and every
\* timed wait returns.
Fairness ==
    /\ WF_vars(StartSteps)
    /\ WF_vars(StopSteps)
    /\ WF_vars(ConnectSteps)
    /\ WF_vars(PollSteps)
    /\ WF_vars(ReportSteps)

FairSpec == Spec /\ Fairness

\* The callers of the manager without the loops: the registry calls, start()
\* and stop().  The loops that start() launches take no step here; none of
\* them writes the registry, the stop event, the position of start() or
\* whether a thread has been started.  stop() goes as far as it does with
\* the pool empty.
NextCallers ==
    \/ \E d \in Devices : add_device(d)
    \/ \E d \in Devices : remove_device(d)
    \/ StartCall
    \/ StopCall
    \/ StartSteps
    \/ StopJoinConnection \/ StopJoinReporting \/ StopJoinPolling
    \/ StopDestroyStreams \/ StopTeardown \/ StopRaise

\* The caller of start() alone is sure to be scheduled.
StartFairSpec == Init /\ [][NextCallers]_vars /\ WF_vars(StartSteps)

-----------------------------------------------------------------------------
(* The manager running on a registry that stays as it is, with devices     *)
(* whose _start succeeds: start() has been called, stop() is not.          *)

InitFixed ==
    /\ devices \in {<<"A", "B">>, <<"B", "A">>}
    /\ hub_cameras = <<>>
    /\ running = TRUE
    /\ connecting_to_device = FALSE
    /\ stop_event = FALSE
    /\ connection_thread = "unstarted"
    /\ reporting_thread = "unstarted"
    /\ polling_thread = "unstarted"
    /\ start_pc = "gate"
    /\ stop_pc = "idle"
    /\ conn_mxids = {}
    /\ conn_i = 0
    /\ conn_device = NoDevice
    /\ conn_camera = NoCamera
    /\ poll_i = 0
    /\ poll_camera = NoCamera
    /\ rep_i = 0
    /\ stop_i = 0
    /\ disconnect_called = 0
    /\ recording = FALSE
    /\ connection_thread_2 = "unstarted"
    /\ conn_mxids_2 = {}
    /\ conn_i_2 = 0
    /\ conn_device_2 = NoDevice
    /\ conn_camera_2 = NoCamera

ConnectDeviceStarts ==
    /\ ConnectDevice
    /\ connection_thread' = "start_camera"

ConnectStepsFixed ==
    \/ ConnectHead \/ ConnectWait \/ ConnectNext \/ ConnectDeviceStarts
    \/ ConnectStartCamera \/ ConnectAppend

StartStepsFixed ==
    \/ StartGate \/ StartConnection \/ StartReporting \/ StartPolling

NextFixed ==
    \/ StartStepsFixed
    \/ ConnectStepsFixed
    \/ PollSteps
    \/ ReportSteps

FairnessFixed ==
    /\ WF_vars(StartStepsFixed)
    /\ WF_vars(ConnectStepsFixed)
    /\ WF_vars(PollSteps)
    /\ WF_vars(ReportSteps)

FixedSpec == InitFixed /\ [][NextFixed]_vars /\ FairnessFixed

-----------------------------------------------------------------------------
(* The same manager, start() called on a registry of two devices, with    *)
(* the passes of _poll and _report recorded in the objects of the pool.   *)

InitObserved ==
    /\ devices \in {<<"A", "B">>, <<"B", "A">>}
    /\ hub_cameras = <<>>
    /\ running = TRUE
    /\ connecting_to_device = FALSE
    /\ stop_event = FALSE
    /\ connection_thread = "unstarted"
    /\ reporting_thread = "unstarted"
    /\ polling_thread = "unstarted"
    /\ start_pc = "gate"
    /\ stop_pc = "idle"
    /\ conn_mxids = {}
    /\ conn_i = 0
    /\ conn_device = NoDevice
    /\ conn_camera = NoCamera
    /\ poll_i = 0
    /\ poll_camera = NoCamera
    /\ rep_i = 0
    /\ stop_i = 0
    /\ disconnect_called = 0
    /\ recording = TRUE
    /\ connection_thread_2 = "unstarted"
    /\ conn_mxids_2 = {}
    /\ conn_i_2 = 0
    /\ conn_device_2 = NoDevice
    /\ conn_camera_2 = NoCamera

ObservedSpec == InitObserved /\ [][NextFixed]_vars

-----------------------------------------------------------------------------
(* _connect and _connect_device run by a second thread on the same        *)
(* manager: the steps of the connection thread, on the second thread's    *)
(* position and local variables.                                          *)

\* ConnectLoop, taken by the second thread
ConnectLoop_2 ==
    /\ IF ~running
         THEN /\ connection_thread_2' = "done"
              /\ UNCHANGED <<conn_mxids_2, conn_i_2>>
         ELSE IF Len(hub_cameras) = Len(devices) \/ connecting_to_device
           THEN /\ connection_thread_2' = "wait"
                /\ UNCHANGED <<conn_mxids_2, conn_i_2>>
           ELSE /\ connection_thread_2' = "iter"
                /\ conn_mxids_2' = PoolMxids(hub_cameras)
                /\ conn_i_2' = 0
    /\ UNCHANGED <<devices, hub_cameras, flag_vars, reporting_thread,
                   polling_thread, start_pc, stop_pc, conn_device_2,
                   conn_camera_2, poll_vars, rep_i, stop_i, recording,
                   first_vars>>

\* ConnectHead, taken by the second thread
ConnectHead_2 ==
    /\ connection_thread_2 = "head"
    /\ ConnectLoop_2

\* ConnectWait, taken by the second thread
ConnectWait_2 ==
    /\ connection_thread_2 = "wait"
    /\ ConnectLoop_2

\* ConnectNext, taken by the second thread
ConnectNext_2 ==
    /\ connection_thread_2 = "iter"
    /\ IF conn_i_2 < Len(devices)
         THEN /\ conn_i_2' = conn_i_2 + 1
              /\ IF devices[conn_i_2 + 1] \notin conn_mxids_2
                   THEN /\ Len(hub_cameras) < MaxPool
                        /\ connecting_to_device' = TRUE
                        /\ conn_device_2' = devices[conn_i_2 + 1]
                        /\ connection_thread_2' = "connect_device"
                   ELSE /\ UNCHANGED <<connecting_to_device, conn_device_2,
                                       connection_thread_2>>
              /\ UNCHANGED conn_mxids_2
         ELSE /\ connection_thread_2' = "head"
              /\ conn_mxids_2' = {}
              /\ conn_i_2' = 0
              /\ UNCHANGED <<connecting_to_device, conn_device_2>>
    /\ UNCHANGED <<devices, hub_cameras, running, stop_event, reporting_thread,
                   polling_thread, start_pc, stop_pc, conn_camera_2, poll_vars,
                   rep_i, stop_i, recording, first_vars>>

\* ConnectDevice, taken by the second thread
ConnectDevice_2 ==
    /\ connection_thread_2 = "connect_device"
    /\ \E start_result \in BOOLEAN :
           /\ conn_camera_2' = [HubCamera(conn_device_2) EXCEPT
                                 !.start_result = start_result]
           /\ connection_thread_2' = IF start_result THEN "start_camera"
                                   ELSE "start_failed"
    /\ UNCHANGED <<devices, hub_cameras, flag_vars, reporting_thread,
                   polling_thread, start_pc, stop_pc, conn_mxids_2, conn_i_2,
                   conn_device_2, poll_vars, rep_i, stop_i, recording,
                   first_vars>>

\* ConnectStartFailed, taken by the second thread
ConnectStartFailed_2 ==
    /\ connection_thread_2 = "start_failed"
    /\ conn_camera_2' = [conn_camera_2 EXCEPT !.stopped = TRUE]
    /\ connection_thread_2' = "abandon"
    /\ UNCHANGED <<devices, hub_cameras, flag_vars, reporting_thread,
                   polling_thread, start_pc, stop_pc, conn_mxids_2, conn_i_2,
                   conn_device_2, poll_vars, rep_i, stop_i, recording,
                   first_vars>>

\* ConnectAbandon, taken by the second thread
ConnectAbandon_2 ==
    /\ connection_thread_2 = "abandon"
    /\ connecting_to_device' = FALSE
    /\ conn_camera_2' = NoCamera
    /\ conn_device_2' = NoDevice
    /\ connection_thread_2' = "iter"
    /\ UNCHANGED <<devices, hub_cameras, running, stop_event, reporting_thread,
                   polling_thread, start_pc, stop_pc, conn_mxids_2, conn_i_2,
                   poll_vars, rep_i, stop_i, recording, first_vars>>

\* ConnectStartCamera, taken by the second thread
ConnectStartCamera_2 ==
    /\ connection_thread_2 = "start_camera"
    /\ conn_camera_2' = [conn_camera_2 EXCEPT !.started = TRUE,
                                          !.connect_called = TRUE]
    /\ connection_thread_2' = "append"
    /\ UNCHANGED <<devices, hub_cameras, flag_vars, reporting_thread,
                   polling_thread, start_pc, stop_pc, conn_mxids_2, conn_i_2,
                   conn_device_2, poll_vars, rep_i, stop_i, recording,
                   first_vars>>

\* ConnectAppend, taken by the second thread
ConnectAppend_2 ==
    /\ connection_thread_2 = "append"
    /\ hub_cameras' = Append(hub_cameras, conn_camera_2)
    /\ connecting_to_device' = FALSE
    /\ conn_camera_2' = NoCamera
    /\ conn_device_2' = NoDevice
    /\ connection_thread_2' = "iter"
    /\ UNCHANGED <<devices, running, stop_event, reporting_thread,
                   polling_thread, start_pc, stop_pc, conn_mxids_2, conn_i_2,
                   poll_vars, rep_i, stop_i, recording, first_vars>>

ConnectSteps_2 ==
    \/ ConnectHead_2 \/ ConnectWait_2 \/ ConnectNext_2 \/ ConnectDevice_2
    \/ ConnectStartFailed_2 \/ ConnectAbandon_2
    \/ ConnectStartCamera_2 \/ ConnectAppend_2

\* start() has launched the connection thread on a registry of two devices,
\* and a second thread runs _connect.
InitTwo ==
    /\ devices \in {<<"A", "B">>, <<"B", "A">>}
    /\ hub_cameras = <<>>
    /\ running = TRUE
    /\ connecting_to_device = FALSE
    /\ stop_event = FALSE
    /\ connection_thread = "head"
    /\ reporting_thread = "unstarted"
    /\ polling_thread = "unstarted"
    /\ start_pc = "launch_reporting"
    /\ stop_pc = "idle"
    /\ conn_mxids = {}
    /\ conn_i = 0
    /\ conn_device = NoDevice
    /\ conn_camera = NoCamera
    /\ poll_i = 0
    /\ poll_camera = NoCamera
    /\ rep_i = 0
    /\ stop_i = 0
    /\ disconnect_called = 0
    /\ recording = FALSE
    /\ connection_thread_2 = "head"
    /\ conn_mxids_2 = {}
    /\ conn_i_2 = 0
    /\ conn_device_2 = NoDevice
    /\ conn_camera_2 = NoCamera

NextTwo == ConnectSteps \/ ConnectSteps_2

TwoSupervisorSpec == InitTwo /\ [][NextTwo]_vars

-----------------------------------------------------------------------------
(* Properties *)

Launched(thread) == thread # "unstarted"

AllLaunched ==
    /\ Launched(connection_thread)
    /\ Launched(reporting_thread)
    /\ Launched(polling_thread)

NoLoopRunning ==
    /\ ~is_alive(connection_thread)
    /\ ~is_alive(reporting_thread)
    /\ ~is_alive(polling_thread)

StopFinished == stop_pc \in {"done", "raised"}

\* C1: once start() has launched the three loops, a stop() called from then
\* on finishes (returns or raises), and no loop is running when it has.
C1_StopFinishes ==
    [](((start_pc = "returned" /\ stop_pc = "idle")
            => [](stop_pc # "idle" => <>(StopFinished /\ NoLoopRunning))))

\* C2: the pool never holds more handles than the registry holds devices.
C2_PoolWithinRegistry == Len(hub_cameras) <= Len(devices)

\* C3: no two handles of the pool carry the same device id.
C3_DistinctIds ==
    \A i, j \in 1..Len(hub_cameras) :
        i # j => hub_cameras[i].device_mxid # hub_cameras[j].device_mxid

\* C4: a loop that is at its wait point with the stop event set begins no
\* new pass: its next step is its exit.
C4_ExitAtWait ==
    [][stop_event =>
          /\ (connection_thread = "wait"
                 => connection_thread' \in {"wait", "done"})
          /\ (reporting_thread = "wait"
                 => reporting_thread' \in {"wait", "done"})
          /\ (polling_thread = "wait"
                 => polling_thread' \in {"wait", "done"})]_vars

\* C5: STOPPED is terminal: no loop is launched once stop() has completed.
C5_NoLaunchAfterStop ==
    [][StopFinished =>
          /\ (Launched(connection_thread') => Launched(connection_thread))
          /\ (Launched(reporting_thread') => Launched(reporting_thread))
          /\ (Launched(polling_thread') => Launched(polling_thread))]_vars

\* The handle whose poll failed is out of the pool.
FailedHandleRemoved ==
    \A i \in 1..Len(hub_cameras) : ~hub_cameras[i].poll_failed

\* C6 as claimed: an eviction ends with the handle out of the pool and the
\* disconnect-callback invoked exactly once.
C6_CallbackExactlyOnce ==
    polling_thread = "disconnect_return"
        => FailedHandleRemoved /\ disconnect_called = 1

\* C6: a handle whose poll failed is out of the pool before the poll thread
\* takes up the cycle again, hence before the cycle ends; the
\* disconnect-callback is invoked once if the registry holds the handle's
\* device when _disconnect_camera looks it up and not at all if it does not.
C6_EvictedWithinCycle ==
    /\ [](polling_thread \in {"iter", "wait", "disconnect_return"}
              => FailedHandleRemoved)
    /\ [](polling_thread # "disconnect_return" => disconnect_called = 0)
    /\ [][polling_thread = "disconnect_lookup"
              /\ polling_thread' # "disconnect_lookup"
            => /\ polling_thread' = "disconnect_return"
               /\ disconnect_called' =
                      IF poll_camera.device_mxid \in Range(devices)
                        THEN 1 ELSE 0]_vars

\* C6 happens: an eviction that invoked the callback, another handle staying.
C6_Witness ==
    /\ polling_thread = "disconnect_return"
    /\ disconnect_called = 1
    /\ hub_cameras # <<>>

\* C7: a handle whose device's _start returned False is stopped, gets no
\* connect-callback and is not put into the pool: every handle of the pool
\* is one whose device's _start returned True.
C7_FailedStartNotPooled ==
    /\ \A i \in 1..Len(hub_cameras) : hub_cameras[i].start_result
    /\ (conn_camera # NoCamera /\ ~conn_camera.start_result)
           => /\ ~conn_camera.connect_called
              /\ ~conn_camera.started
              /\ connection_thread \in {"start_failed", "abandon"}
    /\ connection_thread = "abandon"
           => conn_camera.stopped /\ ~conn_camera.start_result

\* C7 happens: a failed attempt, its handle stopped and about to be dropped.
C7_Witness ==
    /\ connection_thread = "abandon"
    /\ conn_camera.stopped
    /\ hub_cameras # <<>>

LaunchStep ==
    \/ ~Launched(connection_thread) /\ Launched(connection_thread')
    \/ ~Launched(reporting_thread) /\ Launched(reporting_thread')
    \/ ~Launched(polling_thread) /\ Launched(polling_thread')

\* C8 as claimed: the registry holds a device whenever a loop is launched.
C8_RegistryAtLaunch == [][LaunchStep => devices # <<>>]_vars

\* C8: start() launches no loop before it has seen the registry non-empty:
\* it leaves its wait only at a check that finds a device, and a loop is
\* launched only by start() after that check.
C8_LaunchAfterGate ==
    /\ [](start_pc \in {"idle", "gate", "gate_wait"}
              => /\ ~Launched(connection_thread)
                 /\ ~Launched(reporting_thread)
                 /\ ~Launched(polling_thread))
    /\ [][(start_pc \in {"idle", "gate", "gate_wait"}
              /\ start_pc' \notin {"idle", "gate", "gate_wait"})
            => start_pc = "gate" /\ devices # <<>>]_vars

\* C8 happens: the loops launched, and the registry emptied since the check.
C8_Witness ==
    /\ start_pc = "returned"
    /\ AllLaunched
    /\ devices = <<>>

\* C9: start() waiting with a device registered that stays registered
\* launches the three loops and returns.
C9_StartReturns ==
    (start_pc \in {"gate", "gate_wait"} /\ devices # <<>>)
        ~> (devices = <<>> \/ (start_pc = "returned" /\ AllLaunched))

\* C9 happens: start() has waited on the empty registry, a device is added
\* before the wait returns.
C9_Witness ==
    /\ start_pc = "gate_wait"
    /\ devices # <<>>

PoolComplete ==
    /\ PoolMxids(hub_cameras) = Range(devices)
    /\ Len(hub_cameras) = Len(devices)

\* C10: on a registry that stays as it is, unless polls go on failing for
\* ever, the pool comes to hold every registered device, also after an
\* eviction.
C10_PoolReturns ==
    \/ []<>PoolComplete
    \/ []<>(polling_thread = "disconnect_stop")

\* C10 happens: the pool is complete in an order that only an eviction of
\* the first device and its reconnection produce.
C10_Witness ==
    /\ devices = <<"A", "B">>
    /\ PoolComplete
    /\ hub_cameras[1].device_mxid = "B"

\* C14: an exception of destroy_all_streams or of a handle's exit ends stop()
\* with the wrapped exception raised: from either except clause stop() goes
\* nowhere but to its raise, and having raised it does not return normally.
C14_StopRaises ==
    [][(stop_pc \in {"destroy_except", "exit_except", "raised"})
          => stop_pc' \in {stop_pc, "raised"}]_vars

\* C14 happens: stop() has raised, two handles in the pool.
C14_Witness ==
    /\ stop_pc = "raised"
    /\ Len(hub_cameras) = 2

\* The handles stop() has not come to: its iterator of the pool stands at
\* stop_i (0 before the loop over the pool).
NotReached == (stop_i + 1)..Len(hub_cameras)

\* C15 as claimed: when stop() ends by raising, no handle whose state is not
\* DISCONNECTED is left in the pool without its exit invoked.
C15_ExitOnEveryHandle ==
    [][(stop_pc \in {"destroy_except", "exit_except"} /\ stop_pc' = "raised")
          => \A i \in NotReached : ~NotDisconnected(hub_cameras[i])]_vars

\* C16: a step that takes a handle out of the pool takes out one handle,
\* and that handle has been stopped.
C16_StoppedAtRemoval ==
    [][(Len(hub_cameras') < Len(hub_cameras))
          => \E i \in 1..Len(hub_cameras) :
                 /\ hub_cameras' = RemoveAt(hub_cameras, i)
                 /\ hub_cameras[i].stopped]_vars

\* C16 happens: a handle has just left the pool, another one stays.
C16_Witness ==
    /\ polling_thread = "disconnect_lookup"
    /\ poll_camera.stopped
    /\ Len(hub_cameras) = 1
    /\ ~hub_cameras[1].stopped

\* C17: the registry changes only by an add_device that appends one device
\* or a remove_device that removes one, and such a step is no step of a
\* loop, of start() or of stop().
C17_RegistryFrame ==
    [][(devices' # devices)
          => /\ \E d \in Devices :
                    \/ devices' = Append(devices, d)
                    \/ devices' = ListRemove(devices, d)
             /\ UNCHANGED <<connection_thread, reporting_thread,
                            polling_thread, start_pc, stop_pc,
                            hub_cameras>>]_vars

\* C17 happens: a device whose _start failed and a device whose handle was
\* evicted, both registered still.
C17_Witness ==
    /\ connection_thread = "abandon"
    /\ conn_device \in Range(devices)
    /\ polling_thread = "disconnect_return"
    /\ disconnect_called = 1

\* A pass over the pool is under way: the for loop of the thread has read
\* an object of the pool and has not found its iterator exhausted.
ReportMidPass == reporting_thread = "iter" /\ rep_i > 0
PollMidPass ==
    /\ polling_thread \in {"iter", "disconnect_stop", "disconnect_remove",
                           "disconnect_lookup", "disconnect_return"}
    /\ poll_i > 0

\* C12 as claimed: while a pass of _report over the pool is under way no loop
\* appends to the pool or removes from it, and while a pass of _poll is
\* under way the connection loop does not append to it.
C12_PoolSerialized ==
    [][/\ ReportMidPass => Len(hub_cameras') = Len(hub_cameras)
       /\ (PollMidPass /\ connection_thread' # connection_thread)
              => Len(hub_cameras') = Len(hub_cameras)]_vars

\* C13 as claimed: a handle that is due in a pass of _report, after a handle
\* whose report raised in that pass, is still reported in the pass: it stays
\* ahead of the iterator of _report when a handle before it leaves the pool.
C13_ReportedAfterRaise ==
    [][\A i, j, k \in 1..Len(hub_cameras) :
           (/\ i < j /\ k < j
            /\ hub_cameras[i].report = "raised"
            /\ hub_cameras[j].report = "due"
            /\ hub_cameras' = RemoveAt(hub_cameras, k))
               => j - 1 > rep_i']_vars

\* C18 as claimed: when a pass of _poll ends, no handle that was in the pool
\* when the pass began and is in it still has been left unpolled.
C18_EveryHandlePolled ==
    [][(polling_thread = "iter" /\ polling_thread' = "wait")
          => \A i \in 1..Len(hub_cameras) : hub_cameras[i].poll # "due"]_vars

\* C20 as claimed: when a pass of _report ends, no handle that was in the
\* pool when the pass began and is in it still has been left without its
\* report tried.
C20_EveryHandleReported ==
    [][(reporting_thread = "iter" /\ reporting_thread' = "wait")
          => \A i \in 1..Len(hub_cameras) :
                 hub_cameras[i].report # "due"]_vars

\* _connect_device(device) has been called for the device d: the handle is
\* created and d's _start invoked.
AttemptFor(d) == conn_camera.device_mxid = d

\* C19 as claimed: with the connection loop running, a device that is
\* registered and has no handle in the pool gets a connection attempt,
\* unless it leaves the registry (or the pool is at the model's bound).
C19_AttemptEventually ==
    \A d \in Devices :
        [](( /\ running /\ is_alive(connection_thread)
             /\ d \in Range(devices)
             /\ d \notin PoolMxids(hub_cameras))
              => <>(\/ AttemptFor(d)
                    \/ d \notin Range(devices)
                    \/ Len(hub_cameras) >= MaxPool))

\* The thread is inside a call of _connect_device.
InFlight(thread) ==
    thread \in {"start_failed", "abandon", "start_camera", "append"}

\* C11 as claimed: two threads running _connect are never both inside
\* _connect_device.
C11_OneAttemptInFlight ==
    ~(InFlight(connection_thread) /\ InFlight(connection_thread_2))

====
